---- MODULE Spec2Model ----
(***************************************************************************)
(* Model of program_10.py: daily streamflow statistics.                    *)
(*                                                                         *)
(* ReadData -> ClipData -> GetAnnualStatistics / GetMonthlyStatistics      *)
(*          -> GetMonthlyAverages, with the metric functions CalcTqmean,   *)
(* CalcRBindex, Calc7Q and CalcExceed3TimesMedian.                         *)
(*                                                                         *)
(* Representation.  A date is the integer yyyymmdd (19691001), so that the *)
(* order of dates is the order of integers.  A discharge value is a        *)
(* natural number, or NaN (pandas' missing value).  A real number computed *)
(* by a division is the pair [n, d] standing for n/d with d >= 0; as in    *)
(* IEEE arithmetic 0/0 is NaN and x/0 (x > 0) is infinite.  A table is the *)
(* sequence of its rows in index order.                                    *)
(***************************************************************************)
EXTENDS Integers, Sequences, FiniteSets

VARIABLES
    pc,             \* position in the pipeline
    lines,          \* the lines of the input file given to ReadData
    DataDF,         \* the table: sequence of [Date, Discharge]
    MissingValues,  \* the missing-value count returned with DataDF
    startDate,      \* ClipData's range
    endDate,
    prevDF,         \* the table the last ClipData call received
    prevMissing,    \* the missing-value count that came with prevDF
    Qvalues,        \* the series given to a metric function
    metric,         \* the value a metric function returned
    bins,           \* the groups of the last resample: [label, Qvalues]
    WYDataDF,       \* the table GetAnnualStatistics returned
    MoDataDF,       \* the table GetMonthlyStatistics returned
    MonthlyAverages,\* the table GetMonthlyAverages returned
    error           \* the exception raised, "none" when there is none

vars == <<pc, lines, DataDF, MissingValues, startDate, endDate, prevDF,
          prevMissing, Qvalues, metric, bins, WYDataDF, MoDataDF,
          MonthlyAverages, error>>

----------------------------------------------------------------------------
(* Values *)

\* np.NaN: the missing discharge value
NaN == -1

\* the token 'Eqp' of the input file (na_values)
Eqp == -2

IsNaN(x) == x = NaN

\* a real number n/d; d = 0 is NaN (n = 0) or infinite (n > 0)
Real(n, d) == [n |-> n, d |-> d]

RealNaN == Real(0, 0)

RealIsNaN(r) == r.d = 0 /\ r.n = 0

\* largest discharge value of the model
MaxQ == 2

RECURSIVE SeqSum(_)
SeqSum(s) == IF s = <<>> THEN 0 ELSE Head(s) + SeqSum(Tail(s))

\* the series without its missing values (pandas skipna)
Valid(s) == SelectSeq(s, LAMBDA x : ~IsNaN(x))

----------------------------------------------------------------------------
(* ReadData *)

\* header=1: the line with this number (from 0, comment lines not counted)
\* is the header, and the lines before it are dropped
HeaderRow == 1

na_values == {Eqp}

\* discharge column of one data line
ParseDischarge(tok) == IF tok \in na_values THEN NaN ELSE tok

\* comment='#': the lines that are not comments
DataLines(ls) == SelectSeq(ls, LAMBDA l : l.kind # "comment")

\* Series.isna().sum() of the Discharge column
IsnaSum(DF) == Len(SelectSeq(DF, LAMBDA r : IsNaN(r.Discharge)))

\* pd.read_csv(...).set_index('Date'): the rows in the order of the file
ReadCsv(ls) ==
    LET body == DataLines(ls)
        n == Len(body)
    IN  IF n <= HeaderRow + 1 THEN <<>>
        ELSE [i \in 1..(n - HeaderRow - 1) |->
                [Date |-> body[i + HeaderRow + 1].Date,
                 Discharge |-> ParseDischarge(body[i + HeaderRow + 1].tok)]]

ReadData ==
    /\ pc = "start"
    /\ DataDF' = ReadCsv(lines)
    /\ MissingValues' = IsnaSum(ReadCsv(lines))
    /\ pc' = "loaded"
    /\ UNCHANGED <<lines, startDate, endDate, prevDF, prevMissing,
                   Qvalues, metric, bins, WYDataDF, MoDataDF,
                   MonthlyAverages, error>>

----------------------------------------------------------------------------
(* ClipData *)

\* (DataDF.index < startDate).sum()
BeforeSum(DF, s) == Len(SelectSeq(DF, LAMBDA r : r.Date < s))

\* (DataDF.index > endDate).sum()
AfterSum(DF, e) == Len(SelectSeq(DF, LAMBDA r : r.Date > e))

\* the label slice without its last row
LabelSliceDropLast(DF, s, e) ==
    LET lo == Cardinality({i \in 1..Len(DF) : DF[i].Date < s})
        hi == Cardinality({i \in 1..Len(DF) : DF[i].Date <= e})
    IN  IF hi - 1 <= lo THEN <<>> ELSE SubSeq(DF, lo + 1, hi - 1)

\* DataDF[startDate:endDate] on an ascending index: the label slice is the
\* positional slice between the first position whose date is not before
\* startDate and the last position whose date is not after endDate
LabelSlice(DF, s, e) ==
    LET lo == Cardinality({i \in 1..Len(DF) : DF[i].Date < s})
        hi == Cardinality({i \in 1..Len(DF) : DF[i].Date <= e})
    IN  IF hi <= lo THEN <<>> ELSE SubSeq(DF, lo + 1, hi)

\* ClipData counting the day endDate itself among the days after the range
ClipDataFromEnd(DF, s, e) ==
    [DataDF |-> LabelSlice(DF, s, e),
     MissingValues |-> IsnaSum(DF) + BeforeSum(DF, s) + AfterSum(DF, e - 1)]

ClipDataFn(DF, s, e) ==
    [DataDF |-> LabelSlice(DF, s, e),
     MissingValues |-> IsnaSum(DF) + BeforeSum(DF, s) + AfterSum(DF, e)]

\* the call of the main program, on the loaded table
ClipData ==
    /\ pc = "loaded"
    /\ DataDF' = ClipDataFn(DataDF, startDate, endDate).DataDF
    /\ MissingValues' = ClipDataFn(DataDF, startDate, endDate).MissingValues
    /\ prevDF' = DataDF
    /\ prevMissing' = MissingValues
    /\ pc' = "clipped"
    /\ UNCHANGED <<lines, startDate, endDate, Qvalues, metric, bins,
                   WYDataDF, MoDataDF, MonthlyAverages, error>>

\* ClipData applied to its own result with the same range
ClipDataAgain ==
    /\ pc = "clipped"
    /\ DataDF' = ClipDataFn(DataDF, startDate, endDate).DataDF
    /\ MissingValues' = ClipDataFn(DataDF, startDate, endDate).MissingValues
    /\ prevDF' = DataDF
    /\ prevMissing' = MissingValues
    /\ pc' = "reclipped"
    /\ UNCHANGED <<lines, startDate, endDate, Qvalues, metric, bins,
                   WYDataDF, MoDataDF, MonthlyAverages, error>>

----------------------------------------------------------------------------
(* Metric functions.  Qvalues is the sequence of the discharge values of   *)
(* one period, missing values included when the caller passes them.        *)

\* number of values of s smaller than v, and not larger than v
CountLess(s, v) == Cardinality({i \in 1..Len(s) : s[i] < v})
CountLeq(s, v) == Cardinality({i \in 1..Len(s) : s[i] <= v})

\* the k-th smallest value of a sequence without missing values
KthSmallest(s, k) ==
    CHOOSE v \in {s[i] : i \in 1..Len(s)} :
        CountLess(s, v) < k /\ k <= CountLeq(s, v)

\* Series.mean(): the mean of the values that are not missing
SeriesMean(Q) == Real(SeqSum(Valid(Q)), Len(Valid(Q)))

\* Series.max()
SeriesMax(Q) ==
    IF Valid(Q) = <<>> THEN RealNaN
    ELSE Real(KthSmallest(Valid(Q), Len(Valid(Q))), 1)

\* Series.median(): the middle value, or half the sum of the two middle
\* values, of the values that are not missing
SeriesMedian(Q) ==
    LET v == Valid(Q)
        n == Len(v)
    IN  IF n = 0 THEN RealNaN
        ELSE IF n % 2 = 1 THEN Real(KthSmallest(v, (n + 1) \div 2), 1)
        ELSE Real(KthSmallest(v, n \div 2) + KthSmallest(v, n \div 2 + 1), 2)

\* x > r for a discharge value x and a real r; False when either is NaN
Greater(x, r) == ~IsNaN(x) /\ r.d > 0 /\ x * r.d > r.n

\* len(Qvalues) = 0 makes the division of CalcTqmean a division of the
\* integer 0 by the integer 0
CalcTqmeanRaises(Q) == Len(Q) = 0

\* len(index[Qvalues > Qvalues.mean()]) / len(Qvalues)
CalcTqmean(Q) ==
    Real(Cardinality({i \in 1..Len(Q) : Greater(Q[i], SeriesMean(Q))}),
         Len(Q))

Abs(x) == IF x < 0 THEN -x ELSE x

\* the path length without the absolute value
PathLengthSigned(Q) ==
    SeqSum([i \in 1..Len(Q) |->
              IF i = 1 \/ IsNaN(Q[i]) \/ IsNaN(Q[i - 1]) THEN 0
              ELSE Q[i] - Q[i - 1]])

\* Qvalues.diff().abs().sum(): a difference with a missing operand is
\* missing and the sum skips it; the first difference is missing
PathLength(Q) ==
    SeqSum([i \in 1..Len(Q) |->
              IF i = 1 \/ IsNaN(Q[i]) \/ IsNaN(Q[i - 1]) THEN 0
              ELSE Abs(Q[i] - Q[i - 1])])

\* a.abs().sum() / Qvalues.sum()
CalcRBindex(Q) == Real(PathLength(Q), SeqSum(Valid(Q)))

\* rolling(window=7)
Window == 7

\* the sums of the complete windows that hold no missing value
WindowSums(Q) ==
    {SeqSum(SubSeq(Q, i - Window + 1, i)) :
        i \in {j \in Window..Len(Q) :
                 \A k \in (j - Window + 1)..j : ~IsNaN(Q[k])}}

\* the seven-day sums divided by the six intervals between the days
Calc7QIntervals(Q) ==
    IF WindowSums(Q) = {} THEN RealNaN
    ELSE Real(CHOOSE m \in WindowSums(Q) : \A x \in WindowSums(Q) : m <= x,
              Window - 1)

\* np.min(Qvalues.rolling(window=7).mean())
Calc7Q(Q) ==
    IF WindowSums(Q) = {} THEN RealNaN
    ELSE Real(CHOOSE m \in WindowSums(Q) : \A x \in WindowSums(Q) : m <= x,
              Window)

\* the multiple of the median
TimesMedian == 3

\* len(index[Qvalues > 3 * Qvalues.median()])
CalcExceed3TimesMedian(Q) ==
    LET a == SeriesMedian(Q)
        t == Real(TimesMedian * a.n, a.d)
    IN  Real(Cardinality({i \in 1..Len(Q) : Greater(Q[i], t)}), 1)

(* One call of a metric function on the series Qvalues. *)

DoCalcTqmean ==
    /\ pc = "series"
    /\ IF CalcTqmeanRaises(Qvalues)
       THEN error' = "ZeroDivisionError" /\ UNCHANGED metric
       ELSE metric' = CalcTqmean(Qvalues) /\ UNCHANGED error
    /\ pc' = "Tqmean"
    /\ UNCHANGED <<lines, DataDF, MissingValues, startDate, endDate, prevDF,
                   prevMissing, Qvalues, bins, WYDataDF, MoDataDF,
                   MonthlyAverages>>

DoCalcRBindex ==
    /\ pc = "series"
    /\ metric' = CalcRBindex(Qvalues)
    /\ pc' = "RBindex"
    /\ UNCHANGED <<lines, DataDF, MissingValues, startDate, endDate, prevDF,
                   prevMissing, Qvalues, bins, WYDataDF, MoDataDF,
                   MonthlyAverages, error>>

DoCalc7Q ==
    /\ pc = "series"
    /\ metric' = Calc7Q(Qvalues)
    /\ pc' = "7Q"
    /\ UNCHANGED <<lines, DataDF, MissingValues, startDate, endDate, prevDF,
                   prevMissing, Qvalues, bins, WYDataDF, MoDataDF,
                   MonthlyAverages, error>>

DoCalcExceed3TimesMedian ==
    /\ pc = "series"
    /\ metric' = CalcExceed3TimesMedian(Qvalues)
    /\ pc' = "3xMedian"
    /\ UNCHANGED <<lines, DataDF, MissingValues, startDate, endDate, prevDF,
                   prevMissing, Qvalues, bins, WYDataDF, MoDataDF,
                   MonthlyAverages, error>>

----------------------------------------------------------------------------
(* Resampling: GetAnnualStatistics, GetMonthlyStatistics *)

Year(d) == d \div 10000

Month(d) == (d \div 100) % 100

\* the water year that starts one month late, on November 1
PeriodStartNovember(freq, d) ==
    IF freq = "AS-OCT"
    THEN (IF Month(d) > 10 THEN Year(d) ELSE Year(d) - 1) * 10000 + 1001
    ELSE (d \div 100) * 100 + 1

\* the label of the period of a date: 'AS-OCT' is the latest October 1,
\* 'MS' the first day of the month
PeriodStart(freq, d) ==
    IF freq = "AS-OCT"
    THEN (IF Month(d) >= 10 THEN Year(d) ELSE Year(d) - 1) * 10000 + 1001
    ELSE (d \div 100) * 100 + 1

\* the label of the period after the period labelled L
NextPeriod(freq, L) ==
    IF freq = "AS-OCT" THEN L + 10000
    ELSE IF Month(L) = 12 THEN (Year(L) + 1) * 10000 + 101
    ELSE L + 100

\* resample sorts the rows by date, rows of equal dates in their order
SortByDate(DF) ==
    LET rank(i) == Cardinality({j \in 1..Len(DF) : DF[j].Date < DF[i].Date})
                   + Cardinality({j \in 1..i : DF[j].Date = DF[i].Date})
    IN  [k \in 1..Len(DF) |-> DF[CHOOSE i \in 1..Len(DF) : rank(i) = k]]

\* the labels of the grid, from the label L to the label last
RECURSIVE Labels(_, _, _)
Labels(freq, L, last) ==
    IF L > last THEN <<>>
    ELSE <<L>> \o Labels(freq, NextPeriod(freq, L), last)

\* DataDF['Discharge'].resample(freq): the periods from the period of the
\* first date to the period of the last date, each with the rows whose
\* dates are in it, the periods without a row included
Resample(freq, DF) ==
    IF DF = <<>> THEN <<>>
    ELSE LET sorted == SortByDate(DF)
             grid == Labels(freq, PeriodStart(freq, sorted[1].Date),
                            PeriodStart(freq, sorted[Len(DF)].Date))
         IN  [k \in 1..Len(grid) |->
                [label |-> grid[k],
                 rows |-> SelectSeq(sorted,
                            LAMBDA r : /\ grid[k] <= r.Date
                                       /\ r.Date < NextPeriod(freq, grid[k]))]]

\* the Discharge column of the rows of a period: the series that
\* resample(...).apply hands to the function
Series(rows) == [i \in 1..Len(rows) |-> rows[i].Discharge]

\* apply(CalcTqmean) raises when a period of the grid has no row
ApplyRaises(groups) ==
    \E k \in 1..Len(groups) : CalcTqmeanRaises(Series(groups[k].rows))

\* the columns of WYDataDF; Coeff Var and Skew, which need a square root,
\* are not part of the model
AnnualRow(g) ==
    [label |-> g.label,
     MeanFlow |-> SeriesMean(Series(g.rows)),
     PeakFlow |-> SeriesMax(Series(g.rows)),
     MedianFlow |-> SeriesMedian(Series(g.rows)),
     Tqmean |-> CalcTqmean(Series(g.rows)),
     RBIndex |-> CalcRBindex(Series(g.rows)),
     Q7 |-> Calc7Q(Series(g.rows)),
     Median3x |-> CalcExceed3TimesMedian(Series(g.rows))]

\* the columns of MoDataDF; Coeff Var is not part of the model
MonthlyRow(g) ==
    [label |-> g.label,
     MeanFlow |-> SeriesMean(Series(g.rows)),
     Tqmean |-> CalcTqmean(Series(g.rows)),
     RBIndex |-> CalcRBindex(Series(g.rows))]

GetAnnualStatistics ==
    /\ pc = "clipped"
    /\ bins' = Resample("AS-OCT", DataDF)
    /\ IF ApplyRaises(Resample("AS-OCT", DataDF))
       THEN /\ error' = "ZeroDivisionError"
            /\ pc' = "annual raised"
            /\ UNCHANGED WYDataDF
       ELSE /\ WYDataDF' = [k \in 1..Len(Resample("AS-OCT", DataDF)) |->
                              AnnualRow(Resample("AS-OCT", DataDF)[k])]
            /\ pc' = "annual"
            /\ UNCHANGED error
    /\ UNCHANGED <<lines, DataDF, MissingValues, startDate, endDate, prevDF,
                   prevMissing, Qvalues, metric, MoDataDF, MonthlyAverages>>

GetMonthlyStatistics ==
    /\ pc = "annual"
    /\ bins' = Resample("MS", DataDF)
    /\ IF ApplyRaises(Resample("MS", DataDF))
       THEN /\ error' = "ZeroDivisionError"
            /\ pc' = "monthly raised"
            /\ UNCHANGED MoDataDF
       ELSE /\ MoDataDF' = [k \in 1..Len(Resample("MS", DataDF)) |->
                              MonthlyRow(Resample("MS", DataDF)[k])]
            /\ pc' = "monthly"
            /\ UNCHANGED error
    /\ UNCHANGED <<lines, DataDF, MissingValues, startDate, endDate, prevDF,
                   prevMissing, Qvalues, metric, WYDataDF, MonthlyAverages>>

----------------------------------------------------------------------------
(* GetMonthlyAverages *)

RealAdd(a, b) == Real(a.n * b.d + b.n * a.d, a.d * b.d)

RECURSIVE RealSum(_)
RealSum(s) == IF s = <<>> THEN Real(0, 1)
              ELSE RealAdd(Head(s), RealSum(Tail(s)))

\* Series.mean() of a column of real numbers: the NaN values are skipped,
\* and the mean of no value is NaN
RealMean(s) ==
    LET v == SelectSeq(s, LAMBDA r : ~RealIsNaN(r))
    IN  Real(RealSum(v).n, RealSum(v).d * Len(v))

\* the keys of the groups, in ascending order
RECURSIVE SortedSeq(_)
SortedSeq(S) ==
    IF S = {} THEN <<>>
    ELSE LET m == CHOOSE x \in S : \A y \in S : x <= y
         IN  <<m>> \o SortedSeq(S \ {m})

\* the averages with one group for each row label instead of each month
MonthlyAveragesByLabel(Mo) ==
    [k \in 1..Len(Mo) |->
       [Month |-> Month(Mo[k].label),
        MeanFlow |-> RealMean(<<Mo[k].MeanFlow>>),
        Tqmean |-> RealMean(<<Mo[k].Tqmean>>),
        RBIndex |-> RealMean(<<Mo[k].RBIndex>>)]]

\* MoDataDF.groupby(by=[MoDataDF.index.month]).mean()
MonthlyAveragesFn(Mo) ==
    LET keys == SortedSeq({Month(Mo[i].label) : i \in 1..Len(Mo)})
        group(m) == SelectSeq(Mo, LAMBDA r : Month(r.label) = m)
    IN  [k \in 1..Len(keys) |->
           [Month |-> keys[k],
            MeanFlow |-> RealMean([i \in 1..Len(group(keys[k])) |->
                                     group(keys[k])[i].MeanFlow]),
            Tqmean |-> RealMean([i \in 1..Len(group(keys[k])) |->
                                   group(keys[k])[i].Tqmean]),
            RBIndex |-> RealMean([i \in 1..Len(group(keys[k])) |->
                                    group(keys[k])[i].RBIndex])]]

GetMonthlyAverages ==
    /\ pc = "monthly"
    /\ MonthlyAverages' = MonthlyAveragesFn(MoDataDF)
    /\ pc' = "done"
    /\ UNCHANGED <<lines, DataDF, MissingValues, startDate, endDate, prevDF,
                   prevMissing, Qvalues, metric, bins, WYDataDF, MoDataDF,
                   error>>

----------------------------------------------------------------------------
(* Specifications of the metric functions alone: a series is drawn, and    *)
(* one metric function is applied to it.                                   *)

\* longest series given to the four metric functions
MaxLen == 4

\* longest series given to Calc7Q
MaxLen7Q == 8

SeqsUpTo(S, n) == UNION {[1..k -> S] : k \in 0..n}

Discharges == {NaN} \cup (0..MaxQ)

Idle ==
    /\ DataDF = <<>>
    /\ MissingValues = 0
    /\ prevDF = <<>>
    /\ prevMissing = 0
    /\ metric = RealNaN
    /\ bins = <<>>
    /\ WYDataDF = <<>>
    /\ MoDataDF = <<>>
    /\ MonthlyAverages = <<>>
    /\ error = "none"

InitMetric ==
    /\ pc = "series"
    /\ Qvalues \in SeqsUpTo(Discharges, MaxLen)
    /\ lines = <<>>
    /\ startDate = 0
    /\ endDate = 0
    /\ Idle

NextMetric ==
    \/ DoCalcTqmean
    \/ DoCalcRBindex
    \/ DoCalc7Q
    \/ DoCalcExceed3TimesMedian

SpecMetric == InitMetric /\ [][NextMetric]_vars

Init7Q ==
    /\ pc = "series"
    /\ Qvalues \in SeqsUpTo({NaN, 0, MaxQ}, MaxLen7Q)
    /\ lines = <<>>
    /\ startDate = 0
    /\ endDate = 0
    /\ Idle

Next7Q == DoCalc7Q

Spec7Q == Init7Q /\ [][Next7Q]_vars

NoMissing(Q) == \A i \in 1..Len(Q) : ~IsNaN(Q[i])

Constant(Q) == \A i, j \in 1..Len(Q) : Q[i] = Q[j]

\* a real number that is not NaN and is >= 0, and one that is 0
RealGeqZero(r) == r.n >= 0 /\ r.d >= 0 /\ ~RealIsNaN(r)
RealIsZero(r) == r.n = 0 /\ r.d > 0

\* C6 as stated: for every series S, CalcRBindex(S) >= 0, and it is 0 if
\* and only if S is constant or has at most one element.
C6_AsStated ==
    pc = "RBindex" =>
        /\ RealGeqZero(metric)
        /\ RealIsZero(metric) <=> (Constant(Qvalues) \/ Len(Qvalues) <= 1)

\* C6 amended: for a series S without missing values whose sum is
\* positive, CalcRBindex(S) >= 0 and it is 0 if and only if S is constant
\* (a one-element series is constant and yields 0); when the sum is 0, S
\* empty or all zeros, the index is NaN.
C6_RBindex ==
    (pc = "RBindex" /\ NoMissing(Qvalues)) =>
        IF SeqSum(Qvalues) > 0
        THEN /\ RealGeqZero(metric)
             /\ RealIsZero(metric) <=> Constant(Qvalues)
        ELSE RealIsNaN(metric)

C6_Witness ==
    /\ pc = "RBindex"
    /\ Len(Qvalues) = 1
    /\ Qvalues[1] > 0
    /\ RealIsZero(metric)

\* C9: for a series S without missing values and with at least 7
\* observations, Calc7Q(S) is a number and Calc7Q(S) <= max(S).
C9_7QAtMostMax ==
    (pc = "7Q" /\ NoMissing(Qvalues) /\ Len(Qvalues) >= Window) =>
        /\ metric.d > 0
        /\ \E i \in 1..Len(Qvalues) :
              /\ \A j \in 1..Len(Qvalues) : Qvalues[j] <= Qvalues[i]
              /\ metric.n <= Qvalues[i] * metric.d

C9_Witness ==
    /\ pc = "7Q"
    /\ NoMissing(Qvalues)
    /\ Len(Qvalues) > Window
    /\ ~Constant(Qvalues)
    /\ metric.d > 0
    /\ metric.n > 0

----------------------------------------------------------------------------
(* Specification of ReadData alone: a file whose lines are in any order.   *)

\* most lines of a file
MaxLines == 4

ReadDates == {19691001, 19691002}

Tokens == {Eqp, MaxQ}

FileLines(D) ==
    {[kind |-> "comment", Date |-> 0, tok |-> 0]}
        \cup [kind : {"data"}, Date : D, tok : Tokens]

InitRead ==
    /\ pc = "start"
    /\ lines \in SeqsUpTo(FileLines(ReadDates), MaxLines)
    /\ startDate = 0
    /\ endDate = 0
    /\ Qvalues = <<>>
    /\ Idle

NextRead == ReadData

SpecRead == InitRead /\ [][NextRead]_vars

\* C8 as stated: the table returned by ReadData has a date index without
\* duplicate dates and in ascending order, whatever the order and
\* multiplicity of the dates in the file.
C8_UniqueSorted ==
    pc = "loaded" =>
        \A i, j \in 1..Len(DataDF) : i < j => DataDF[i].Date < DataDF[j].Date

----------------------------------------------------------------------------
(* Specification of ReadData and ClipData: a file of daily values with its *)
(* days in ascending order, as the files of the main program are, is       *)
(* loaded, clipped, and clipped again to the same range.                   *)

\* most data rows of a file
MaxRows == 3

\* the days around the two ends of the range of the main program
ClipDates == {19690930, 19691001, 20190930, 20191001}

HeaderLines ==
    <<[kind |-> "data", Date |-> 0, tok |-> 0],
      [kind |-> "data", Date |-> 0, tok |-> 0]>>

Ascending(ls) == \A i, j \in 1..Len(ls) : i < j => ls[i].Date <= ls[j].Date

InitClip ==
    /\ pc = "start"
    /\ \E body \in SeqsUpTo([kind : {"data"}, Date : ClipDates, tok : Tokens],
                            MaxRows) :
          /\ Ascending(body)
          /\ lines = HeaderLines \o body
    /\ startDate \in ClipDates
    /\ endDate \in ClipDates
    /\ Qvalues = <<>>
    /\ Idle

NextClip ==
    \/ ReadData
    \/ ClipData
    \/ ClipDataAgain

SpecClip == InitClip /\ [][NextClip]_vars

InRange(r) == startDate <= r.Date /\ r.Date <= endDate

\* the rows of a table that are missing, and that are out of the range
MissingRows(DF) == {i \in 1..Len(DF) : IsNaN(DF[i].Discharge)}
ExcludedRows(DF) == {i \in 1..Len(DF) : ~InRange(DF[i])}

C2_AsStated ==
    (pc = "reclipped" /\ startDate <= endDate) =>
        (DataDF = prevDF /\ MissingValues = prevMissing)

\* C2 amended: for a table S with its dates in ascending order, ClipData
\* applied to the table returned by ClipData(S, a, b), with the same a and
\* b, returns the same table; the missing count it returns is the number of
\* missing discharge values of that table, which is at most the count
\* ClipData(S, a, b) returned, and smaller when S has a row out of [a, b].
C2_ClipIdempotent ==
    pc = "reclipped" =>
        /\ DataDF = prevDF
        /\ MissingValues = Cardinality(MissingRows(prevDF))
        /\ MissingValues <= prevMissing
        /\ ExcludedRows(ReadCsv(lines)) # {} => MissingValues < prevMissing

C2_Witness ==
    /\ pc = "reclipped"
    /\ DataDF # <<>>
    /\ MissingValues > 0
    /\ MissingValues < prevMissing

\* C3 as stated: with start > end the returned table is empty and the
\* number added to the missing count is the number of rows of the input
\* table, every row counted once.
C3_ReversedRange ==
    (pc = "clipped" /\ startDate > endDate) =>
        /\ DataDF = <<>>
        /\ MissingValues - Cardinality(MissingRows(prevDF)) = Len(prevDF)

----------------------------------------------------------------------------
(* Specification of the period statistics: a clipped table is resampled to *)
(* water years, then to months, and the monthly table is averaged.         *)

\* most rows of the clipped table
MaxStatRows == 3

\* days on both sides of October 1, in three water years
StatDates == {19980930, 19981001, 19981115, 19990930, 19991001, 20001001}

InitStats ==
    /\ pc = "clipped"
    /\ DataDF \in SeqsUpTo([Date : StatDates, Discharge : {NaN, 1, MaxQ}],
                           MaxStatRows)
    /\ Ascending(DataDF)
    /\ MissingValues = IsnaSum(DataDF)
    /\ lines = <<>>
    /\ startDate = 19690930
    /\ endDate = 20190930
    /\ prevDF = <<>>
    /\ prevMissing = 0
    /\ Qvalues = <<>>
    /\ metric = RealNaN
    /\ bins = <<>>
    /\ WYDataDF = <<>>
    /\ MoDataDF = <<>>
    /\ MonthlyAverages = <<>>
    /\ error = "none"

NextStats ==
    \/ GetAnnualStatistics
    \/ GetMonthlyStatistics
    \/ GetMonthlyAverages

SpecStats == InitStats /\ [][NextStats]_vars

AfterAnnual == pc \in {"annual", "annual raised"}

AfterMonthly == pc \in {"monthly", "monthly raised"}

AllNaNAnnual(r) ==
    /\ RealIsNaN(r.MeanFlow) /\ RealIsNaN(r.PeakFlow)
    /\ RealIsNaN(r.MedianFlow) /\ RealIsNaN(r.Tqmean)
    /\ RealIsNaN(r.RBIndex) /\ RealIsNaN(r.Q7) /\ RealIsNaN(r.Median3x)

AllNaNMonthly(r) ==
    RealIsNaN(r.MeanFlow) /\ RealIsNaN(r.Tqmean) /\ RealIsNaN(r.RBIndex)

\* C4 as stated: a period of the grid without an observation is a row of
\* the table GetAnnualStatistics / GetMonthlyStatistics returns, every
\* metric of the row is NaN, and no error is raised.
C4_EmptyPeriodRow ==
    /\ AfterAnnual =>
          \A k \in 1..Len(bins) : bins[k].rows = <<>> =>
              /\ error = "none"
              /\ Len(WYDataDF) = Len(bins)
              /\ WYDataDF[k].label = bins[k].label
              /\ AllNaNAnnual(WYDataDF[k])
    /\ AfterMonthly =>
          \A k \in 1..Len(bins) : bins[k].rows = <<>> =>
              /\ error = "none"
              /\ Len(MoDataDF) = Len(bins)
              /\ MoDataDF[k].label = bins[k].label
              /\ AllNaNMonthly(MoDataDF[k])

\* C7 as stated: in every period processed by GetAnnualStatistics and
\* GetMonthlyStatistics the series handed to the metric functions holds no
\* missing value.
C7_NoMissingHandedOver ==
    (AfterAnnual \/ AfterMonthly) =>
        \A k \in 1..Len(bins) : NoMissing(Series(bins[k].rows))

\* an October 1 of the years of the model
IsOctoberFirst(L) == L % 10000 = 1001

\* the number of rows of a table that are the row r
Copies(DF, r) == Cardinality({i \in 1..Len(DF) : DF[i] = r})

\* C10: GetAnnualStatistics puts every record of the clipped series in
\* exactly one water-year bucket, the one labelled by the latest October 1
\* on or before the date of the record; the buckets are in chronological
\* order.
C10_WaterYearBuckets ==
    AfterAnnual =>
        /\ \A k \in 1..Len(bins) : IsOctoberFirst(bins[k].label)
        /\ \A k, l \in 1..Len(bins) : k < l => bins[k].label < bins[l].label
        /\ \A i \in 1..Len(DataDF) :
              \E k \in 1..Len(bins) :
                  /\ bins[k].label <= DataDF[i].Date
                  /\ DataDF[i].Date < bins[k].label + 10000
                  /\ Copies(bins[k].rows, DataDF[i]) = Copies(DataDF, DataDF[i])
                  /\ \A l \in 1..Len(bins) :
                        l # k => Copies(bins[l].rows, DataDF[i]) = 0

C10_Witness ==
    /\ pc = "annual"
    /\ Len(bins) = 2
    /\ \E i, j \in 1..Len(DataDF) :
          /\ DataDF[i].Date = 19990930
          /\ DataDF[j].Date = 19991001
          /\ Copies(bins[1].rows, DataDF[i]) > 0
          /\ Copies(bins[2].rows, DataDF[j]) > 0
          /\ bins[1].label = 19981001
          /\ bins[2].label = 19991001

----------------------------------------------------------------------------
(* Specification of GetMonthlyAverages alone: a table of month instances,  *)
(* one row for each month of a run of consecutive months.                  *)

\* most months of the table
MaxMonths == 14

\* the metric rows of the table repeat with this period
PatLen == 5

\* the first month of the table
FirstMonths == {19691001, 19700101}

\* a month whose discharge values are all missing, a month of constant
\* flow, and a month of changing flow
MetricRows ==
    {[MeanFlow |-> RealNaN, Tqmean |-> Real(0, 1), RBIndex |-> RealNaN],
     [MeanFlow |-> Real(1, 1), Tqmean |-> Real(0, 2), RBIndex |-> Real(0, 2)],
     [MeanFlow |-> Real(3, 2), Tqmean |-> Real(1, 2), RBIndex |-> Real(1, 3)]}

\* the label of the i-th month from the month labelled L
RECURSIVE NthMonth(_, _)
NthMonth(L, i) == IF i = 1 THEN L ELSE NthMonth(NextPeriod("MS", L), i - 1)

MonthTable(first, n, pat) ==
    [i \in 1..n |->
       [label |-> NthMonth(first, i),
        MeanFlow |-> pat[((i - 1) % PatLen) + 1].MeanFlow,
        Tqmean |-> pat[((i - 1) % PatLen) + 1].Tqmean,
        RBIndex |-> pat[((i - 1) % PatLen) + 1].RBIndex]]

InitAvg ==
    /\ pc = "monthly"
    /\ \E first \in FirstMonths, n \in 1..MaxMonths,
          pat \in [1..PatLen -> MetricRows] :
          MoDataDF = MonthTable(first, n, pat)
    /\ DataDF = <<>>
    /\ MissingValues = 0
    /\ lines = <<>>
    /\ startDate = 19690930
    /\ endDate = 20190930
    /\ prevDF = <<>>
    /\ prevMissing = 0
    /\ Qvalues = <<>>
    /\ metric = RealNaN
    /\ bins = <<>>
    /\ WYDataDF = <<>>
    /\ MonthlyAverages = <<>>
    /\ error = "none"

NextAvg == GetMonthlyAverages

SpecAvg == InitAvg /\ [][NextAvg]_vars

\* the rows of MoDataDF of the calendar month m whose column c is a number
NumberRows(m, c) ==
    {i \in 1..Len(MoDataDF) :
        Month(MoDataDF[i].label) = m /\ ~RealIsNaN(MoDataDF[i][c])}

RECURSIVE DenProduct(_, _)
DenProduct(I, c) ==
    IF I = {} THEN 1
    ELSE LET i == CHOOSE x \in I : TRUE
         IN  MoDataDF[i][c].d * DenProduct(I \ {i}, c)

\* the sum of the column c over the rows I, as a multiple of 1 / D
RECURSIVE NumSum(_, _, _)
NumSum(I, c, D) ==
    IF I = {} THEN 0
    ELSE LET i == CHOOSE x \in I : TRUE
         IN  MoDataDF[i][c].n * (D \div MoDataDF[i][c].d)
             + NumSum(I \ {i}, c, D)

\* r is the arithmetic mean of column c over the rows of calendar month m
\* that hold a number, NaN when there is none
IsMeanOf(r, m, c) ==
    LET I == NumberRows(m, c)
        D == DenProduct(I, c)
    IN  IF I = {} THEN RealIsNaN(r)
        ELSE r.d > 0 /\ r.n * D * Cardinality(I) = NumSum(I, c, D) * r.d

MetricColumns == {"MeanFlow", "Tqmean", "RBIndex"}

\* C5 as stated: whatever number of years or months the table covers, the
\* result of GetMonthlyAverages has exactly 12 rows, one for each calendar
\* month 1..12 in ascending order, each with the mean of every metric over
\* the rows of that month.
C5_AlwaysTwelveRows ==
    pc = "done" =>
        /\ Len(MonthlyAverages) = 12
        /\ \A m \in 1..12 :
              /\ MonthlyAverages[m].Month = m
              /\ \A c \in MetricColumns :
                    IsMeanOf(MonthlyAverages[m][c], m, c)

\* C5 amended: the result of GetMonthlyAverages has one row for each
\* calendar month that occurs in the index of the table, in ascending order
\* of month number, so exactly 12 rows, the months 1..12, when every
\* calendar month occurs and fewer when some do not; each row holds, for
\* every metric, the mean over the rows of that calendar month that are not
\* NaN, and NaN when there is none.
C5_MonthlyAverages ==
    pc = "done" =>
        /\ {MonthlyAverages[k].Month : k \in 1..Len(MonthlyAverages)}
              = {Month(MoDataDF[i].label) : i \in 1..Len(MoDataDF)}
        /\ \A k, l \in 1..Len(MonthlyAverages) :
              k < l => MonthlyAverages[k].Month < MonthlyAverages[l].Month
        /\ ((\A m \in 1..12 : \E i \in 1..Len(MoDataDF) :
                  Month(MoDataDF[i].label) = m) =>
              /\ Len(MonthlyAverages) = 12
              /\ \A m \in 1..12 : MonthlyAverages[m].Month = m)
        /\ \A k \in 1..Len(MonthlyAverages) : \A c \in MetricColumns :
              IsMeanOf(MonthlyAverages[k][c], MonthlyAverages[k].Month, c)

C5_Witness ==
    /\ pc = "done"
    /\ Len(MoDataDF) > 12
    /\ Len(MonthlyAverages) = 12
    /\ \E m \in 1..12 :
          /\ Cardinality(NumberRows(m, "MeanFlow")) = 2
          /\ \E i, j \in NumberRows(m, "MeanFlow") :
                MoDataDF[i].MeanFlow # MoDataDF[j].MeanFlow

====
